---- MODULE Spec2Model ----
(***************************************************************************)
(* Model of the PDF-to-JSON legal document parser                          *)
(* (src/parser/parse_pdf.py, src/parser/llm_openrouter.py).                *)
(*                                                                         *)
(* A text is a sequence of one-character strings, so that the regular      *)
(* expressions of the source are modelled by what they match.  A Python    *)
(* value that may be None is a sequence of length 0 (None) or 1.           *)
(* Sequences are 1-based: the scan index i of the model is the source's    *)
(* i + 1.                                                                  *)
(***************************************************************************)
EXTENDS Integers, Sequences, FiniteSets, TLC

VARIABLES
    blocks,                 \* the fragment stream given to parse_pdf / the segmenter
    enhance,                \* parse_pdf's flag: None until line 292 reads it
    pc,                     \* position of the run inside parse_pdf
    metadata,               \* result of extract_metadata_from_blocks
    column_separator,       \* segmenter: the boundary, in half units (twice the coordinate)
    i,                      \* segmenter: scan index
    sections,               \* segmenter: closed sections; later the tree parse_pdf enriches
    current_section,        \* segmenter: None or the open section
    current_article,        \* segmenter: None or the open article
    current_title_blocks,   \* segmenter: title accumulator (texts)
    current_content_blocks, \* segmenter: content accumulator (texts)
    matches,                \* history: stream indices at which an article marker matched, in order
    document_enhanced,      \* parse_pdf: None, or the four fields read from the document-level result
    section_idx,            \* parse_pdf: the batch loop's section (1-based)
    batch_i,                \* parse_pdf: the batch loop's i (0-based, as in the source)
    batch_texts,            \* parse_pdf: the request of the latest batch call
    llm_results,            \* parse_pdf: the list the latest batch call returned
    result,                 \* parse_pdf: None, or the Document it returns
    calls,                  \* history: the calls made to the annotation service, in order
    last_reply,             \* history: what the service answered to the latest call
    raw_title,              \* remove_section_titles_from_title: its argument
    cleaned_title,          \* remove_section_titles_from_title: its result
    permuted                \* find_column_separator: a permutation of blocks

vars == <<blocks, enhance, pc, metadata, column_separator, i, sections, current_section,
          current_article, current_title_blocks, current_content_blocks, matches,
          document_enhanced, section_idx, batch_i, batch_texts, llm_results, result,
          calls, last_reply, raw_title, cleaned_title, permuted>>

\* what the segmenter leaves alone
nonsegvars == <<blocks, enhance, metadata, document_enhanced, section_idx, batch_i,
                batch_texts, llm_results, result, calls, last_reply, raw_title, cleaned_title, permuted>>

\* the segmenter's local variables
seglocals == <<column_separator, i, current_section, current_article,
               current_title_blocks, current_content_blocks, matches>>

\* the variables of the pure-function specifications
funvars == <<raw_title, cleaned_title, permuted>>

(***************************************************************************)
(* Bounds of the model                                                     *)
(***************************************************************************)
MaxBlocks == 4
\* the longest list of strings the annotation service answers with
MaxStrings == 1
\* the sections and the articles of a document given to the enrichment pass
MaxSections == 2
MaxArticles == 7
\* the fragments given to find_column_separator alone
MaxColumnBlocks == 3
\* the characters of a title given to remove_section_titles_from_title alone
MaxTitleLen == 7
\* the fragments given to extract_metadata_from_blocks alone
MaxDateBlocks == 2
\* the fragments that follow the first section heading of a stream given to
\* the segmenter alone
MaxTailBlocks == 4

(***************************************************************************)
(* Characters and character classes of the regular expressions             *)
(***************************************************************************)
Space == {" ", "\n", "\t"}
Digit == {"0", "1", "2", "3", "4", "5", "6", "7", "8", "9"}
Roman == {"I", "V", "X"}
Upper == {"A", "B", "C", "D", "E", "F", "G", "H", "I", "J", "K", "L", "M",
          "N", "O", "P", "Q", "R", "S", "T", "U", "V", "W", "X", "Y", "Z"}
Lower == {"a", "b", "c", "d", "e", "f", "g", "h", "i", "j", "k", "l", "m",
          "n", "o", "p", "q", "r", "s", "t", "u", "v", "w", "x", "y", "z"}
Letter == Upper \cup Lower \cup {"ä", "ö", "ü", "Ä", "Ö", "Ü", "ß"}
Alphabet == Space \cup Digit \cup Letter \cup {".", ":", "-", "/", ",", "§", "©"}
NotNewline == Alphabet \ {"\n"}

None == <<>>
Some(x) == <<x>>

\* the first index j >= from such that s[j] is not in cls (Len(s)+1 if none):
\* the end of a greedy  [cls]*  that starts at from
RunEnd(s, from, cls) ==
    CHOOSE j \in from..(Len(s) + 1) :
        /\ \A k \in from..(j - 1) : s[k] \in cls
        /\ (j = Len(s) + 1 \/ s[j] \notin cls)

\* str.strip()
strip(s) ==
    LET nonblank == {k \in 1..Len(s) : s[k] \notin Space}
    IN  IF nonblank = {} THEN <<>>
        ELSE SubSeq(s, CHOOSE k \in nonblank : \A m \in nonblank : k <= m,
                       CHOOSE k \in nonblank : \A m \in nonblank : k >= m)

\* str.rstrip('.')
rstrip_dot(s) ==
    LET keep == {k \in 1..Len(s) : s[k] # "."}
    IN  IF keep = {} THEN <<>>
        ELSE SubSeq(s, 1, CHOOSE k \in keep : \A m \in keep : k >= m)

RECURSIVE join(_)
\* ' '.join(texts)
join(texts) ==
    IF texts = <<>> THEN <<>>
    ELSE IF Len(texts) = 1 THEN texts[1]
    ELSE texts[1] \o <<" ">> \o join(Tail(texts))

UpperSeq == <<"A", "B", "C", "D", "E", "F", "G", "H", "I", "J", "K", "L", "M",
             "N", "O", "P", "Q", "R", "S", "T", "U", "V", "W", "X", "Y", "Z">>
LowerSeq == <<"a", "b", "c", "d", "e", "f", "g", "h", "i", "j", "k", "l", "m",
             "n", "o", "p", "q", "r", "s", "t", "u", "v", "w", "x", "y", "z">>

\* the characters that have a lower-case form, and that form
Cased == Upper \cup {"Ä", "Ö", "Ü"}
CaseFold ==
    [c \in Cased |->
        IF c = "Ä" THEN "ä" ELSE IF c = "Ö" THEN "ö" ELSE IF c = "Ü" THEN "ü"
        ELSE LowerSeq[CHOOSE k \in 1..Len(UpperSeq) : UpperSeq[k] = c]]

\* two characters equal under re.IGNORECASE
SameLetter(c, d) ==
    \/ c = d
    \/ (IF c \in Cased THEN CaseFold[c] ELSE c) = (IF d \in Cased THEN CaseFold[d] ELSE d)

\* re.match of a literal keyword at the start of text, under re.IGNORECASE
starts_with(text, kw) ==
    /\ Len(text) >= Len(kw)
    /\ \A k \in 1..Len(kw) : SameLetter(text[k], kw[k])

(***************************************************************************)
(* The patterns of split_into_sections_and_articles_with_layout            *)
(***************************************************************************)
\* section_numeral_pattern  ^[IVX]+\.?\s*$  matched against a stripped text
section_numeral_pattern(text) ==
    LET r == RunEnd(text, 1, Roman)
        d == IF r <= Len(text) /\ text[r] = "." THEN r + 1 ELSE r
        e == RunEnd(text, d, Space)
    IN  r > 1 /\ e = Len(text) + 1

\* the look-ahead's sub-marker test  ^[A-Z]\.?$  on a stripped text
sub_marker_pattern(text) ==
    /\ Len(text) \in {1, 2}
    /\ text[1] \in Upper
    /\ Len(text) = 2 => text[2] = "."

\* article_patterns, in the order of the list: the keyword, whether whitespace
\* is required after it (\s+ or \s*), and whether a dot must follow the number
article_patterns ==
    << [keyword |-> <<"A", "r", "t", "i", "c", "l", "e">>, need_space |-> TRUE,  dot |-> FALSE],
       [keyword |-> <<"A", "r", "t", ".">>,                need_space |-> FALSE, dot |-> FALSE],
       [keyword |-> <<"§">>,                               need_space |-> FALSE, dot |-> FALSE],
       [keyword |-> <<"S", "e", "c", "t", "i", "o", "n">>, need_space |-> TRUE,  dot |-> FALSE],
       [keyword |-> <<>>,                                  need_space |-> FALSE, dot |-> TRUE] >>

\* re.match(pattern, text, re.IGNORECASE): None, or the groups (number, title)
article_match(p, text) ==
    LET kw == article_patterns[p].keyword
        a  == Len(kw) + 1
        b  == IF kw = <<>> THEN 1 ELSE RunEnd(text, a, Space)
        c  == RunEnd(text, b, Digit)
        d  == IF article_patterns[p].dot THEN RunEnd(text, c + 1, Space)
              ELSE RunEnd(text, c, Space \cup {":"})
        e  == RunEnd(text, d, NotNewline)
    IN  IF /\ starts_with(text, kw)
           /\ (article_patterns[p].need_space => b > a)
           /\ c > b
           /\ (article_patterns[p].dot => (c <= Len(text) /\ text[c] = "."))
        THEN Some([number |-> SubSeq(text, b, c - 1), title |-> SubSeq(text, d, e - 1)])
        ELSE None

\* the first pattern of the list that matches (0 if none)
first_article_pattern(text) ==
    LET hits == {p \in 1..Len(article_patterns) : article_match(p, text) # None}
    IN  IF hits = {} THEN 0 ELSE CHOOSE p \in hits : \A q \in hits : p <= q

(***************************************************************************)
(* Fragments.  bbox is (x0, y0, x1, y1); bbox[1] is the source's bbox[0].  *)
(***************************************************************************)
Fragment(text, x0, y0) == [text |-> text, bbox |-> <<x0, y0, x0 + 10, y0 + 10>>, page |-> 0]

\* the fragments streams are drawn from: a blank one, a section numeral, a
\* sub-marker, two article markers (one with an inline title), and running
\* text in the left and in the right column
FragmentPool ==
    { Fragment(<<" ">>, 50, 10),
      Fragment(<<"I", "I", ".">>, 50, 20),
      Fragment(<<"A", ".">>, 50, 30),
      Fragment(<<"A", "r", "t", ".", " ", "1">>, 50, 40),
      Fragment(<<"2", ".", " ", "Z", "u">>, 50, 60),
      Fragment(<<"a", "b">>, 50, 50),
      Fragment(<<"c", "d">>, 300, 40) }

RECURSIVE SeqsUpTo(_, _)
\* all sequences over S of length at most n
SeqsUpTo(S, n) ==
    IF n = 0 THEN {<<>>}
    ELSE LET shorter == SeqsUpTo(S, n - 1)
         IN  shorter \cup {Append(q, x) : q \in {r \in shorter : Len(r) = n - 1}, x \in S}

(***************************************************************************)
(* find_column_separator.  The result is in half units (twice the          *)
(* coordinate), which keeps the midpoint (a + b) / 2 exact.                *)
(***************************************************************************)
RECURSIVE x_positions(_)
\* lines 68-71: the x0 of every fragment whose stripped text is not empty
x_positions(bs) ==
    IF bs = <<>> THEN <<>>
    ELSE IF strip(Head(bs).text) # <<>>
         THEN <<Head(bs).bbox[1]>> \o x_positions(Tail(bs))
         ELSE x_positions(Tail(bs))

\* the x positions left in stream order
unsorted_x_positions(bs) == x_positions(bs)

\* line 77: x_positions.sort()
sorted_x_positions(bs) == SortSeq(x_positions(bs), LAMBDA a, b : a < b)

\* lines 78-82: the (left, right, gap) of every consecutive pair with gap > 20
gaps(xs) ==
    LET wide == {k \in 2..Len(xs) : xs[k] - xs[k - 1] > 20}
    IN  [k \in wide |-> <<xs[k - 1], xs[k], xs[k] - xs[k - 1]>>]

\* the first gap above the threshold, whatever its width
first_gap(xs) ==
    LET g == gaps(xs)
    IN  g[CHOOSE k \in DOMAIN g : \A m \in DOMAIN g : k <= m]

\* line 86: max(gaps, key=gap), the first of the largest
largest_gap(xs) ==
    LET g == gaps(xs)
        k == CHOOSE k \in DOMAIN g :
                 /\ \A m \in DOMAIN g : g[m][3] <= g[k][3]
                 /\ \A m \in DOMAIN g : g[m][3] = g[k][3] => k <= m
    IN  g[k]

find_column_separator(bs) ==
    IF bs = <<>> THEN 0
    ELSE LET xs == sorted_x_positions(bs)
         IN  IF xs = <<>> THEN 0
             ELSE IF DOMAIN gaps(xs) # {}
                  THEN largest_gap(xs)[1] + largest_gap(xs)[2]
                  ELSE 2 * xs[(Len(xs) \div 2) + 1]

(***************************************************************************)
(* split_into_sections_and_articles_with_layout                            *)
(***************************************************************************)
RECURSIVE look_ahead(_, _, _)
\* lines 129-139: the look-ahead loop from index j with the parts collected so
\* far; the result is the index the loop stops at and the title parts
look_ahead(bs, j, title_parts) ==
    IF j > Len(bs) THEN [j |-> j, title_parts |-> title_parts]
    ELSE LET next_text == strip(bs[j].text)
         IN  IF next_text = <<>> THEN look_ahead(bs, j + 1, title_parts)
             ELSE IF sub_marker_pattern(next_text)
                  THEN look_ahead(bs, j + 1, Append(title_parts, rstrip_dot(next_text)))
                  ELSE [j |-> j, title_parts |-> Append(title_parts, next_text)]

\* lines 140-142
section_title_of(numeral, title_parts) ==
    IF title_parts # <<>> THEN numeral \o <<".", " ">> \o join(title_parts) ELSE numeral

\* lines 145-146, 169-170, 196-197: the open article with its two joined texts
closed_article ==
    [current_article[1] EXCEPT
        !.article_title = strip(join(current_title_blocks)),
        !.article_content = strip(join(current_content_blocks))]

\* the open section as it is, the open article left out
section_without_article == current_section

\* lines 147-148, 171-172, 198-199: the open section after the open article is
\* appended to it; an article open while no section is open goes nowhere
section_with_article ==
    IF current_article # None /\ current_section # None
    THEN Some([current_section[1] EXCEPT !.articles = Append(@, closed_article)])
    ELSE current_section

text_at(k) == strip(blocks[k].text)

\* lines 111-117
SplitStart ==
    /\ pc = "split"
    /\ pc' = "scan"
    /\ column_separator' = find_column_separator(blocks)
    /\ i' = 1
    /\ sections' = <<>>
    /\ current_section' = None
    /\ current_article' = None
    /\ current_title_blocks' = <<>>
    /\ current_content_blocks' = <<>>
    /\ matches' = <<>>
    /\ UNCHANGED nonsegvars

\* lines 119-122
SkipBlank ==
    /\ pc = "scan" /\ i <= Len(blocks)
    /\ text_at(i) = <<>>
    /\ i' = i + 1
    /\ UNCHANGED <<pc, column_separator, sections, current_section, current_article,
                   current_title_blocks, current_content_blocks, matches>>
    /\ UNCHANGED nonsegvars

\* the scan resumes at the fragment the look-ahead stopped at
resume_at_title_text(j) == j

\* line 160: i = j + 1, j being the index at which the look-ahead stopped
resume_index(j) == j + 1

\* lines 124-161
SectionMarker ==
    /\ pc = "scan" /\ i <= Len(blocks)
    /\ text_at(i) # <<>>
    /\ section_numeral_pattern(text_at(i))
    /\ LET la == look_ahead(blocks, i + 1, <<>>)
           section_title == section_title_of(rstrip_dot(text_at(i)), la.title_parts)
       IN  /\ sections' = IF current_section # None
                          THEN Append(sections, section_with_article[1])
                          ELSE sections
           /\ current_section' = Some([section_title |-> strip(section_title),
                                       articles |-> <<>>])
           /\ i' = resume_index(la.j)
    /\ current_article' = None
    /\ current_title_blocks' = IF current_article # None THEN <<>> ELSE current_title_blocks
    /\ current_content_blocks' = IF current_article # None THEN <<>> ELSE current_content_blocks
    /\ UNCHANGED <<pc, column_separator, matches>>
    /\ UNCHANGED nonsegvars

\* an article marker that opens the article and leaves in the accumulators
\* what they hold
ArticleMarkerKeepingAccumulators ==
    /\ pc = "scan" /\ i <= Len(blocks)
    /\ text_at(i) # <<>>
    /\ ~section_numeral_pattern(text_at(i))
    /\ first_article_pattern(text_at(i)) # 0
    /\ LET match == article_match(first_article_pattern(text_at(i)), text_at(i))[1]
           title_text == strip(match.title)
       IN  /\ current_article' = Some([article_number |-> match.number,
                                       article_title |-> <<>>,
                                       article_content |-> <<>>,
                                       marker |-> i])
           /\ current_title_blocks' = IF title_text # <<>>
                                      THEN Append(current_title_blocks, title_text)
                                      ELSE current_title_blocks
    /\ current_section' = section_with_article
    /\ current_content_blocks' = current_content_blocks
    /\ matches' = Append(matches, i)
    /\ i' = i + 1
    /\ UNCHANGED <<pc, column_separator, sections>>
    /\ UNCHANGED nonsegvars

\* lines 163-186 and 193
ArticleMarker ==
    /\ pc = "scan" /\ i <= Len(blocks)
    /\ text_at(i) # <<>>
    /\ ~section_numeral_pattern(text_at(i))
    /\ first_article_pattern(text_at(i)) # 0
    /\ LET match == article_match(first_article_pattern(text_at(i)), text_at(i))[1]
           title_text == strip(match.title)
       IN  /\ current_article' = Some([article_number |-> match.number,
                                       article_title |-> <<>>,
                                       article_content |-> <<>>,
                                       marker |-> i])
           /\ current_title_blocks' = IF title_text # <<>> THEN <<title_text>> ELSE <<>>
    /\ current_section' = section_with_article
    /\ current_content_blocks' = <<>>
    /\ matches' = Append(matches, i)
    /\ i' = i + 1
    /\ UNCHANGED <<pc, column_separator, sections>>
    /\ UNCHANGED nonsegvars

\* a fragment on the boundary counts as left of it
left_of_or_on_separator(block, separator) == 2 * block.bbox[1] <= separator

\* line 189: blocks[i]['bbox'][0] < column_separator
left_of_separator(block, separator) == 2 * block.bbox[1] < separator

\* lines 188-193, an article being open
Continuation ==
    /\ pc = "scan" /\ i <= Len(blocks)
    /\ text_at(i) # <<>>
    /\ ~section_numeral_pattern(text_at(i))
    /\ first_article_pattern(text_at(i)) = 0
    /\ current_article # None
    /\ IF left_of_separator(blocks[i], column_separator)
       THEN /\ current_title_blocks' = Append(current_title_blocks, blocks[i].text)
            /\ UNCHANGED current_content_blocks
       ELSE /\ current_content_blocks' = Append(current_content_blocks, blocks[i].text)
            /\ UNCHANGED current_title_blocks
    /\ i' = i + 1
    /\ UNCHANGED <<pc, column_separator, sections, current_section, current_article, matches>>
    /\ UNCHANGED nonsegvars

\* a fragment that is dropped, the scan going back to the fragment before it
DiscardAndStepBack ==
    /\ pc = "scan" /\ i <= Len(blocks)
    /\ text_at(i) # <<>>
    /\ ~section_numeral_pattern(text_at(i))
    /\ first_article_pattern(text_at(i)) = 0
    /\ current_article = None
    /\ i' = IF i > 1 THEN i - 1 ELSE i
    /\ UNCHANGED <<pc, column_separator, sections, current_section, current_article,
                   current_title_blocks, current_content_blocks, matches>>
    /\ UNCHANGED nonsegvars

\* lines 188 and 193, no article being open
Discard ==
    /\ pc = "scan" /\ i <= Len(blocks)
    /\ text_at(i) # <<>>
    /\ ~section_numeral_pattern(text_at(i))
    /\ first_article_pattern(text_at(i)) = 0
    /\ current_article = None
    /\ i' = i + 1
    /\ UNCHANGED <<pc, column_separator, sections, current_section, current_article,
                   current_title_blocks, current_content_blocks, matches>>
    /\ UNCHANGED nonsegvars

\* lines 118 and 194-202: the loop ends and the function returns sections
EndOfStream ==
    /\ pc = "scan" /\ i > Len(blocks)
    /\ sections' = IF current_section # None
                   THEN Append(sections, section_with_article[1])
                   ELSE sections
    /\ current_section' = section_with_article
    /\ pc' = "clean"
    /\ UNCHANGED <<column_separator, i, current_article,
                   current_title_blocks, current_content_blocks, matches>>
    /\ UNCHANGED nonsegvars

(***************************************************************************)
(* The text normalizer                                                     *)
(***************************************************************************)
RECURSIVE join_hyphens(_, _)
\* line 348: re.sub(r'-\s*\n?\s*([a-zA-ZäöüÄÖÜß])', r'\1', text), scanning from p
join_hyphens(text, p) ==
    IF p > Len(text) THEN <<>>
    ELSE LET q == RunEnd(text, p + 1, Space)
         IN  IF text[p] = "-" /\ q <= Len(text) /\ text[q] \in Letter
             THEN <<text[q]>> \o join_hyphens(text, q + 1)
             ELSE <<text[p]>> \o join_hyphens(text, p + 1)

\* lines 344-351
join_broken_words(text) ==
    IF text = <<>> THEN text
    ELSE LET joined == join_hyphens(text, 1)
         IN  [k \in 1..Len(joined) |-> IF joined[k] = "\n" THEN " " ELSE joined[k]]

RECURSIVE collapse_from(_, _)
\* re.sub(r'\s+', ' ', text), scanning from p
collapse_from(text, p) ==
    IF p > Len(text) THEN <<>>
    ELSE IF text[p] \in Space
         THEN <<" ">> \o collapse_from(text, RunEnd(text, p, Space))
         ELSE <<text[p]>> \o collapse_from(text, p + 1)

collapse_whitespace(text) == collapse_from(text, 1)

\* str.rstrip(), as re.sub(r'\s+$', '', text) of line 367
rstrip(s) ==
    LET nonblank == {k \in 1..Len(s) : s[k] \notin Space}
    IN  IF nonblank = {} THEN <<>>
        ELSE SubSeq(s, 1, CHOOSE k \in nonblank : \A m \in nonblank : k >= m)

\* the start of the maximal run of characters of cls that ends just before index e
RunStart(s, e, cls) ==
    CHOOSE j \in 1..e :
        /\ \A k \in j..(e - 1) : s[k] \in cls
        /\ (j = 1 \/ s[j - 1] \notin cls)

\* lines 362-368: (Seite|Page)?\s*\d+\s*$ matches leftmost, from the keyword
\* (if it is there), else from the whitespace before the final digits
remove_trailing_page_numbers(text) ==
    IF text = <<>> THEN text
    ELSE LET e  == Len(rstrip(text)) + 1
             ds == RunStart(text, e, Digit)
             ws == RunStart(text, ds, Space)
             seite == <<"S", "e", "i", "t", "e">>
             page  == <<"P", "a", "g", "e">>
             from == IF ws > 5 /\ starts_with(SubSeq(text, ws - 5, ws - 1), seite) THEN ws - 5
                     ELSE IF ws > 4 /\ starts_with(SubSeq(text, ws - 4, ws - 1), page) THEN ws - 4
                     ELSE ws
         IN  IF e > 1 /\ ds < e THEN rstrip(SubSeq(text, 1, from - 1)) ELSE rstrip(text)

\* the lookahead (?=[ ]{4,}|$) at index c
page_number_lookahead(text, c) ==
    \/ c = Len(text) + 1
    \/ c = Len(text) /\ text[c] = "\n"
    \/ c + 3 <= Len(text) /\ \A k \in c..(c + 3) : text[k] = " "

\* where a match of (?:^|[ ]{4,})(\d{1,3})(?=[ ]{4,}|$) that starts at p ends
\* (0 if there is none): at the start of the text the digits may come first,
\* anywhere at least four spaces come before them
page_number_match(text, p) ==
    LET digits_ok(q) == LET c == RunEnd(text, q, Digit)
                        IN  c - q \in 1..3 /\ page_number_lookahead(text, c)
        q == RunEnd(text, p, {" "})
    IN  IF p = 1 /\ digits_ok(1) THEN RunEnd(text, 1, Digit)
        ELSE IF q - p >= 4 /\ digits_ok(q) THEN RunEnd(text, q, Digit)
        ELSE 0

RECURSIVE strip_page_numbers(_, _)
\* line 403: re.sub(that pattern, '', content), scanning from p
strip_page_numbers(text, p) ==
    IF p > Len(text) THEN <<>>
    ELSE IF page_number_match(text, p) # 0
         THEN strip_page_numbers(text, page_number_match(text, p))
         ELSE <<text[p]>> \o strip_page_numbers(text, p + 1)

\* a match of (?:[IVX]+\.|[A-Z]\.) at index q
section_marker_at(title, q) ==
    /\ q <= Len(title)
    /\ \/ title[q] \in Upper /\ q + 1 <= Len(title) /\ title[q + 1] = "."
       \/ LET r == RunEnd(title, q, Roman)
          IN  r > q /\ r <= Len(title) /\ title[r] = "."

\* line 376: the start of re.search(r'(\s{0,2}(?:[IVX]+\.|[A-Z]\.)\s*)', title), 0 if none
section_marker_start(title) ==
    LET starts == {p \in 1..Len(title) :
                      \E k \in 0..2 : /\ \A m \in p..(p + k - 1) : m <= Len(title) /\ title[m] \in Space
                                      /\ section_marker_at(title, p + k)}
    IN  IF starts = {} THEN 0 ELSE CHOOSE p \in starts : \A q \in starts : p <= q

\* lines 371-384
remove_section_titles_from_title(title) ==
    LET cleaned == IF section_marker_start(title) # 0
                   THEN strip(SubSeq(title, 1, section_marker_start(title) - 1))
                   ELSE strip(title)
    IN  collapse_whitespace(cleaned)

\* lines 395-398
clean_article_title(t) ==
    strip(collapse_whitespace(remove_section_titles_from_title(join_broken_words(t))))

\* lines 400-406
clean_article_content(t) ==
    strip(collapse_whitespace(remove_trailing_page_numbers(
        strip_page_numbers(join_broken_words(t), 1))))

\* lines 391-407
clean_section_article_text(secs) ==
    [s \in 1..Len(secs) |->
        [section_title |-> strip(collapse_whitespace(join_broken_words(secs[s].section_title))),
         articles |-> [a \in 1..Len(secs[s].articles) |->
            [secs[s].articles[a] EXCEPT
                !.article_title = clean_article_title(@),
                !.article_content = clean_article_content(@)]]]]

(***************************************************************************)
(* extract_metadata_from_blocks: the title                                 *)
(***************************************************************************)
\* the sort key of line 224, compared lexicographically
key_le(a, b) ==
    \/ a.page < b.page
    \/ a.page = b.page /\ a.bbox[2] < b.bbox[2]
    \/ a.page = b.page /\ a.bbox[2] = b.bbox[2] /\ a.bbox[1] <= b.bbox[1]

RECURSIVE insert_sorted(_, _)
\* b put after every element of the sorted list that is not greater (a stable sort)
insert_sorted(sorted, b) ==
    IF sorted = <<>> THEN <<b>>
    ELSE IF key_le(Head(sorted), b) THEN <<Head(sorted)>> \o insert_sorted(Tail(sorted), b)
    ELSE <<b>> \o sorted

RECURSIVE sorted_blocks(_)
\* line 224: sorted(blocks, key=(page, y0, x0))
sorted_blocks(bs) ==
    IF bs = <<>> THEN <<>>
    ELSE insert_sorted(sorted_blocks(SubSeq(bs, 1, Len(bs) - 1)), bs[Len(bs)])

\* line 230: re.match(r'^(Page|Seite|©|Copyright)', text, re.IGNORECASE)
is_header_or_footer(text) ==
    \/ starts_with(text, <<"P", "a", "g", "e">>)
    \/ starts_with(text, <<"S", "e", "i", "t", "e">>)
    \/ starts_with(text, <<"©">>)
    \/ starts_with(text, <<"C", "o", "p", "y", "r", "i", "g", "h", "t">>)

\* lines 226-232: the first of the first ten sorted fragments that has a text
\* and is no header or footer gives the title, cut to 200 characters
metadata_title(bs) ==
    LET first10 == SubSeq(sorted_blocks(bs), 1, IF Len(bs) < 10 THEN Len(bs) ELSE 10)
        good == {k \in 1..Len(first10) :
                    strip(first10[k].text) # <<>> /\ ~is_header_or_footer(strip(first10[k].text))}
        text == strip(first10[CHOOSE k \in good : \A m \in good : k <= m].text)
    IN  IF good = {} THEN <<>>
        ELSE SubSeq(text, 1, IF Len(text) < 200 THEN Len(text) ELSE 200)

(***************************************************************************)
(* extract_metadata_from_blocks: the date                                  *)
(***************************************************************************)
\* line 216: the keys of months_en, in the order of their numbers
months_en ==
    <<<<"J", "a", "n", "u", "a", "r", "y">>,
      <<"F", "e", "b", "r", "u", "a", "r", "y">>,
      <<"M", "a", "r", "c", "h">>,
      <<"A", "p", "r", "i", "l">>,
      <<"M", "a", "y">>,
      <<"J", "u", "n", "e">>,
      <<"J", "u", "l", "y">>,
      <<"A", "u", "g", "u", "s", "t">>,
      <<"S", "e", "p", "t", "e", "m", "b", "e", "r">>,
      <<"O", "c", "t", "o", "b", "e", "r">>,
      <<"N", "o", "v", "e", "m", "b", "e", "r">>,
      <<"D", "e", "c", "e", "m", "b", "e", "r">>>>

\* line 217: the keys of months_de, in the order of their numbers
months_de ==
    <<<<"J", "a", "n", "u", "a", "r">>,
      <<"F", "e", "b", "r", "u", "a", "r">>,
      <<"M", "ä", "r", "z">>,
      <<"A", "p", "r", "i", "l">>,
      <<"M", "a", "i">>,
      <<"J", "u", "n", "i">>,
      <<"J", "u", "l", "i">>,
      <<"A", "u", "g", "u", "s", "t">>,
      <<"S", "e", "p", "t", "e", "m", "b", "e", "r">>,
      <<"O", "k", "t", "o", "b", "e", "r">>,
      <<"N", "o", "v", "e", "m", "b", "e", "r">>,
      <<"D", "e", "z", "e", "m", "b", "e", "r">>>>

\* \w
WordChar == Letter \cup Digit

\* \b at index p: exactly one of text[p-1], text[p] is a word character
word_boundary(text, p) ==
    (p > 1 /\ text[p - 1] \in WordChar) # (p <= Len(text) /\ text[p] \in WordChar)

\* the characters of text from index p on are exactly n digits, n >= 1
digits_at(text, p, n) ==
    /\ p + n - 1 <= Len(text)
    /\ \A k \in p..(p + n - 1) : text[k] \in Digit

\* \b\d at index p: the start of every match of the numeric patterns
number_starts(text, p) == word_boundary(text, p) /\ digits_at(text, p, 1)

DigitSeq == <<"0", "1", "2", "3", "4", "5", "6", "7", "8", "9">>

RECURSIVE to_int(_)
\* int() of a string of digits
to_int(ds) ==
    IF ds = <<>> THEN 0
    ELSE 10 * to_int(SubSeq(ds, 1, Len(ds) - 1))
         + (CHOOSE v \in 0..9 : DigitSeq[v + 1] = ds[Len(ds)])

\* the month names of a list that text carries at index p (at most one: no
\* name of a list begins another), as month numbers
month_at(months, text, p) ==
    {m \in 1..Len(months) :
        /\ p + Len(months[m]) - 1 <= Len(text)
        /\ \A k \in 1..Len(months[m]) : SameLetter(text[p + k - 1], months[m][k])}

\* the greedy choice among the ways a pattern matches at one index: the
\* groups are tried longest first, the earlier group before the later one
greedy(ways) ==
    CHOOSE w \in ways : \A v \in ways :
        \E k \in 1..(Len(w) + 1) :
            /\ \A h \in 1..(k - 1) : w[h] = v[h]
            /\ k <= Len(w) => w[k] > v[k]

\* the year of a two-digit year, the last year of this century's half being 50
century_year_through_50(y) == IF y <= 50 THEN 2000 + y ELSE 1900 + y

\* lines 250-251: y = '20' + y if int(y) < 50 else '19' + y
century_year(y) == IF y < 50 THEN 2000 + y ELSE 1900 + y

\* line 237: \b(\d{1,2})[/-](\d{1,2})[/-](\d{2,4})\b at index p, as the numbers
\* of its groups <<day, month, year>> and the number of digits of the year
numeric_dmy_groups_at(text, p) ==
    LET ways == {w \in (1..2) \X (1..2) \X (2..4) :
                    /\ digits_at(text, p, w[1])
                    /\ p + w[1] <= Len(text) /\ text[p + w[1]] \in {"/", "-"}
                    /\ digits_at(text, p + w[1] + 1, w[2])
                    /\ p + w[1] + 1 + w[2] <= Len(text)
                    /\ text[p + w[1] + 1 + w[2]] \in {"/", "-"}
                    /\ digits_at(text, p + w[1] + w[2] + 2, w[3])
                    /\ word_boundary(text, p + w[1] + w[2] + 2 + w[3])}
    IN  IF ~number_starts(text, p) THEN None
        ELSE IF ways = {} THEN None
        ELSE LET w == greedy(ways)
             IN  Some(<<to_int(SubSeq(text, p, p + w[1] - 1)),
                        to_int(SubSeq(text, p + w[1] + 1, p + w[1] + w[2])),
                        to_int(SubSeq(text, p + w[1] + w[2] + 2, p + w[1] + w[2] + 1 + w[3])),
                        w[3]>>)

\* lines 237 and 246-252: the match at index p as <<year, month, day>>; a year
\* of two digits is of this century below 50 and of the last one from 50 on
numeric_dmy_at(text, p) ==
    IF numeric_dmy_groups_at(text, p) = None THEN None
    ELSE Some(CHOOSE date \in {<<IF g[4] = 2 THEN century_year(g[3]) ELSE g[3], g[2], g[1]>> :
                                  g \in {numeric_dmy_groups_at(text, p)[1]}} : TRUE)

\* lines 238 and 251-253: \b(\d{4})[/-](\d{1,2})[/-](\d{1,2})\b at index p
numeric_ymd_at(text, p) ==
    LET ways == {w \in (1..2) \X (1..2) :
                    /\ digits_at(text, p, 4)
                    /\ p + 4 <= Len(text) /\ text[p + 4] \in {"/", "-"}
                    /\ digits_at(text, p + 5, w[1])
                    /\ p + 5 + w[1] <= Len(text) /\ text[p + 5 + w[1]] \in {"/", "-"}
                    /\ digits_at(text, p + 6 + w[1], w[2])
                    /\ word_boundary(text, p + 6 + w[1] + w[2])}
        w == greedy(ways)
    IN  IF ~number_starts(text, p) THEN None
        ELSE IF ways = {} THEN None
        ELSE Some(<<to_int(SubSeq(text, p, p + 3)),
                    to_int(SubSeq(text, p + 5, p + 4 + w[1])),
                    to_int(SubSeq(text, p + 6 + w[1], p + 5 + w[1] + w[2]))>>)

\* lines 239-240 and 254-261: \b(<month>)\s+(\d{1,2}),?\s+(\d{4})\b at index
\* p, the month being a name of months_en or of months_de
month_day_year_at(months, text, p) ==
    LET named == month_at(months, text, p)
        m == CHOOSE n \in named : TRUE
        ds == p + Len(months[m])
        d == RunEnd(text, ds, Space)
        ways == {w \in (1..2) \X (0..1) :
                    /\ d > ds
                    /\ digits_at(text, d, w[1])
                    /\ w[2] = 1 => (d + w[1] <= Len(text) /\ text[d + w[1]] = ",")
                    /\ RunEnd(text, d + w[1] + w[2], Space) > d + w[1] + w[2]
                    /\ digits_at(text, RunEnd(text, d + w[1] + w[2], Space), 4)
                    /\ word_boundary(text, RunEnd(text, d + w[1] + w[2], Space) + 4)}
        w == greedy(ways)
        y == RunEnd(text, d + w[1] + w[2], Space)
    IN  IF ~word_boundary(text, p) THEN None
        ELSE IF named = {} THEN None
        ELSE IF ways = {} THEN None
        ELSE Some(<<to_int(SubSeq(text, y, y + 3)), m, to_int(SubSeq(text, d, d + w[1] - 1))>>)

\* lines 241 and 262-265: \b(\d{1,2})\.\s*(<month of months_de>)\s*(\d{4})\b
\* at index p
day_month_year_at(text, p) ==
    LET ways == {w \in (1..2) \X (1..Len(months_de)) :
                    /\ digits_at(text, p, w[1])
                    /\ p + w[1] <= Len(text) /\ text[p + w[1]] = "."
                    /\ w[2] \in month_at(months_de, text, RunEnd(text, p + w[1] + 1, Space))
                    /\ digits_at(text, RunEnd(text, RunEnd(text, p + w[1] + 1, Space)
                                                    + Len(months_de[w[2]]), Space), 4)
                    /\ word_boundary(text, RunEnd(text, RunEnd(text, p + w[1] + 1, Space)
                                                        + Len(months_de[w[2]]), Space) + 4)}
        w == greedy(ways)
        y == RunEnd(text, RunEnd(text, p + w[1] + 1, Space) + Len(months_de[w[2]]), Space)
    IN  IF ~number_starts(text, p) THEN None
        ELSE IF ways = {} THEN None
        ELSE Some(<<to_int(SubSeq(text, y, y + 3)), w[2], to_int(SubSeq(text, p, p + w[1] - 1))>>)

\* lines 236-242: date_patterns[k - 1] at index p
date_pattern_at(k, text, p) ==
    CASE k = 1 -> numeric_dmy_at(text, p)
      [] k = 2 -> numeric_ymd_at(text, p)
      [] k = 3 -> month_day_year_at(months_en, text, p)
      [] k = 4 -> month_day_year_at(months_de, text, p)
      [] k = 5 -> day_month_year_at(text, p)

\* line 245: re.search, the match at the leftmost index that has one
date_search(k, text) ==
    LET found == {p \in 1..Len(text) : date_pattern_at(k, text, p) # None}
    IN  IF found = {} THEN None
        ELSE date_pattern_at(k, text, CHOOSE p \in found : \A q \in found : p <= q)

\* datetime.date(y, m, d) does not raise
valid_date(y, m, d) ==
    /\ y \in 1..9999
    /\ m \in 1..12
    /\ d >= 1
    /\ d <= (IF m = 2
             THEN (IF y % 4 = 0 /\ (y % 100 # 0 \/ y % 400 = 0) THEN 29 ELSE 28)
             ELSE IF m \in {4, 6, 9, 11} THEN 30 ELSE 31)

RECURSIVE decimal(_)
\* str() of a natural number
decimal(n) ==
    IF n < 10 THEN <<DigitSeq[n + 1]>>
    ELSE decimal(n \div 10) \o <<DigitSeq[(n % 10) + 1]>>

\* line 266: dt.strftime('%d.%m.%Y').  Day and month have two digits; the C
\* library decides whether a year below 1000 is padded to four digits
strftime(y, m, d, padded) ==
    LET two(n) == IF n < 10 THEN <<"0">> \o decimal(n) ELSE decimal(n)
        year == IF padded /\ y < 1000 THEN two(y \div 100) \o two(y % 100) ELSE decimal(y)
    IN  two(d) \o <<".">> \o two(m) \o <<".">> \o year

RECURSIVE first_date(_, _)
\* lines 244-270: the patterns from date_patterns[k - 1] on, in order; a
\* pattern whose leftmost match is no calendar date is passed over.  None, or
\* the <<year, month, day>> of dt
first_date(k, text) ==
    IF k > 5 THEN None
    ELSE LET match == date_search(k, text)
         IN  IF match # None /\ valid_date(match[1][1], match[1][2], match[1][3])
             THEN match
             ELSE first_date(k + 1, text)

\* lines 243, 266 and 271: found_date, '' if no pattern gave a date
found_date(dt, padded) ==
    IF dt = None THEN <<>> ELSE strftime(dt[1][1], dt[1][2], dt[1][3], padded)

\* line 235: ' '.join([block['text'] for block in blocks])
all_text(bs) == join([k \in 1..Len(bs) |-> bs[k].text])

\* lines 235-272
metadata_date(bs, padded) == found_date(first_date(1, all_text(bs)), padded)

\* lines 205-274: the dictionaries extract_metadata_from_blocks can return
extract_metadata_from_blocks(bs) ==
    LET title == metadata_title(bs)
        dt == first_date(1, all_text(bs))
    IN  {[title |-> title, date |-> found_date(dt, padded)] : padded \in BOOLEAN}

(***************************************************************************)
(* The annotation service (llm_openrouter.py).  A Python dict is a record; *)
(* a JSON value that is no dict is the record NonObject.                   *)
(***************************************************************************)
NonObject == [json_non_object |-> TRUE]
is_dict(v) == "json_non_object" \notin DOMAIN v

\* dict.get(key, '')
Get(d, key) == IF key \in DOMAIN d THEN d[key] ELSE ""
\* dict.get(key, '') of a key whose value the model holds as characters
GetText(d, key) == IF key \in DOMAIN d THEN d[key] ELSE <<>>

SummaryLabels   == <<"s1", "s2", "s3", "s4", "s5", "s6", "s7", "s8", "s9">>
IntentionLabels == <<"i1", "i2", "i3", "i4", "i5", "i6", "i7", "i8", "i9">>
KeywordLabels   == <<"k1", "k2", "k3", "k4", "k5", "k6", "k7", "k8", "k9">>

\* the annotation object the service gives at position k of its answer
Annotation(k) ==
    [summary |-> SummaryLabels[k], intention |-> IntentionLabels[k], keywords |-> KeywordLabels[k]]

\* what the service may answer to a batch request of n texts:
\*   transport    the request fails (lines 62-70 raise)
\*   unparseable  the content is no JSON
\*   other        a JSON value that is no dict, no list of dicts and no list of strings
\*   object       a single JSON object
\*   objects      a JSON list of len objects
\*   strings      a JSON list of strings; each holds an object, another JSON
\*                value, or no JSON
Reply(kind, len, elems) == [kind |-> kind, len |-> len, elems |-> elems]

BatchReplies(n) ==
    {Reply(k, 0, <<>>) : k \in {"transport", "unparseable", "other", "object"}}
    \cup {Reply("objects", len, <<>>) : len \in 0..(n + 1)}
    \cup {Reply("strings", Len(e), e) :
            e \in SeqsUpTo({"object", "value", "garbage"}, MaxStrings) \ {<<>>}}

\* one error-tagged empty object, whatever the number of requested texts
single_error_result(n) ==
    <<[summary |-> "", intention |-> "", keywords |-> "", error |-> "e"]>>

\* line 91: the error-tagged empty object, once per requested text
error_results(n) ==
    [k \in 1..n |-> [summary |-> "", intention |-> "", keywords |-> "", error |-> "e"]]

\* line 88
raw_results(n) ==
    [k \in 1..n |-> [summary |-> "", intention |-> "", keywords |-> "", raw |-> "content"]]

\* lines 61-91
analyze_articles_batch_with_mistral(article_texts, reply) ==
    LET n == Len(article_texts)
    IN  CASE reply.kind = "transport"   -> error_results(n)
          [] reply.kind = "unparseable" -> raw_results(n)
          [] reply.kind = "other"       -> raw_results(n)
          [] reply.kind = "object"      -> <<Annotation(1)>>
          [] reply.kind = "objects"     -> [k \in 1..reply.len |-> Annotation(k)]
          [] reply.kind = "strings"     ->
                [k \in 1..reply.len |->
                    CASE reply.elems[k] = "object"  -> Annotation(k)
                      [] reply.elems[k] = "value"   -> NonObject
                      [] reply.elems[k] = "garbage" ->
                            [summary |-> "", intention |-> "", keywords |-> "", raw |-> "x"]]

\* what the service may answer to the document request: a failed request, no
\* JSON, an object with a title, an object with an empty title and no
\* summary key, or a JSON value that is no object.  A title is text like the
\* metadata title it stands in for; the other fields are labels
DocReplies == {"transport", "unparseable", "titled", "untitled", "non_object"}

\* lines 115-128
analyze_document_with_mistral(reply) ==
    CASE reply = "transport"   -> [summary |-> "", intention |-> "", keywords |-> "",
                                   title |-> <<>>, error |-> "e"]
      [] reply = "unparseable" -> [summary |-> "", intention |-> "", keywords |-> "",
                                   title |-> <<>>, raw |-> "content"]
      [] reply = "titled"      -> [summary |-> "ds", intention |-> "di", keywords |-> "dk",
                                   title |-> <<"d", "t">>]
      [] reply = "untitled"    -> [intention |-> "di", keywords |-> "dk", title |-> <<>>]
      [] reply = "non_object"  -> NonObject

(***************************************************************************)
(* parse_pdf                                                               *)
(***************************************************************************)
BATCH_SIZE == 5

Min(a, b) == IF a < b THEN a ELSE b

\* a step one short of the batch size: consecutive batches share an article
overlapping_batch_start(k) == k + 4

\* line 311: the step of range(0, len(articles), BATCH_SIZE)
next_batch_start(k) == k + BATCH_SIZE

\* line 312: articles[i:i+BATCH_SIZE], as the 1-based positions it holds
batch_positions(articles, k) == (k + 1)..Min(k + BATCH_SIZE, Len(articles))

\* a merge that also writes the summary over the article's content
merged_over_content(article, llm_result) ==
    [f \in DOMAIN article \cup {"article_summary", "article_intention", "article_keywords"} |->
        IF f = "article_summary" THEN Get(llm_result, "summary")
        ELSE IF f = "article_intention" THEN Get(llm_result, "intention")
        ELSE IF f = "article_keywords" THEN Get(llm_result, "keywords")
        ELSE IF f = "article_content" THEN <<"s">>
        ELSE article[f]]

\* lines 317-319: the article with the three fields of one result merged in
merged(article, llm_result) ==
    [f \in DOMAIN article \cup {"article_summary", "article_intention", "article_keywords"} |->
        IF f = "article_summary" THEN Get(llm_result, "summary")
        ELSE IF f = "article_intention" THEN Get(llm_result, "intention")
        ELSE IF f = "article_keywords" THEN Get(llm_result, "keywords")
        ELSE article[f]]

\* lines 316-319: zip(batch, llm_results) stops at the shorter list, and the
\* loop stops at the first result that is no dict (its .get raises)
first_non_dict(results, upto) ==
    LET bad == {k \in 1..upto : ~is_dict(results[k])}
    IN  IF bad = {} THEN 0 ELSE CHOOSE k \in bad : \A m \in bad : k <= m

merged_articles(articles, k, results) ==
    LET pos  == batch_positions(articles, k)
        upto == Min(Cardinality(pos), Len(results))
        stop == first_non_dict(results, upto)
        last == IF stop = 0 THEN upto ELSE stop - 1
    IN  [a \in 1..Len(articles) |->
            IF a \in pos /\ a - k <= last THEN merged(articles[a], results[a - k])
            ELSE articles[a]]

\* a result that carries the document-level enrichment fields whether or not
\* enrichment ran
result_with_enrichment_fields(enh, doc, meta, secs) ==
    [document_title |-> IF enh /\ doc[1].title # <<>> THEN doc[1].title ELSE meta.title,
     document_date |-> meta.date,
     document_summary |-> IF enh THEN doc[1].summary ELSE "",
     document_intention |-> IF enh THEN doc[1].intention ELSE "",
     document_keywords |-> IF enh THEN doc[1].keywords ELSE "",
     sections |-> secs]

\* a result whose title is the enrichment title even when that is empty
result_with_enrichment_title(enh, doc, meta, secs) ==
    IF enh
    THEN [document_title |-> doc[1].title,
          document_date |-> meta.date,
          document_summary |-> doc[1].summary,
          document_intention |-> doc[1].intention,
          document_keywords |-> doc[1].keywords,
          sections |-> secs]
    ELSE [document_title |-> meta.title, document_date |-> meta.date, sections |-> secs]

\* lines 324-331
result_of(enh, doc, meta, secs) ==
    IF enh
    THEN [document_title |-> IF doc[1].title # <<>> THEN doc[1].title ELSE meta.title,
          document_date |-> meta.date,
          document_summary |-> doc[1].summary,
          document_intention |-> doc[1].intention,
          document_keywords |-> doc[1].keywords,
          sections |-> secs]
    ELSE [document_title |-> meta.title, document_date |-> meta.date, sections |-> secs]

\* metadata extraction that also estimates the column boundary
ExtractMetadataAndEstimate ==
    /\ pc = "start"
    /\ metadata' \in extract_metadata_from_blocks(blocks)
    /\ column_separator' = find_column_separator(blocks)
    /\ pc' = "split"
    /\ UNCHANGED <<blocks, enhance, sections, i, current_section, current_article,
                   current_title_blocks, current_content_blocks, matches, document_enhanced,
                   section_idx, batch_i, batch_texts, llm_results, result, calls, last_reply,
                   funvars>>

\* lines 287-288
ExtractMetadata ==
    /\ pc = "start"
    /\ metadata' \in extract_metadata_from_blocks(blocks)
    /\ pc' = "split"
    /\ UNCHANGED <<blocks, enhance, sections, seglocals, document_enhanced, section_idx,
                   batch_i, batch_texts, llm_results, result, calls, last_reply, funvars>>

\* line 290
Clean ==
    /\ pc = "clean"
    /\ sections' = clean_section_article_text(sections)
    /\ pc' = "enhance"
    /\ UNCHANGED <<blocks, enhance, metadata, seglocals, document_enhanced, section_idx,
                   batch_i, batch_texts, llm_results, result, calls, last_reply, funvars>>

\* lines 292-304: the document-level call; reading the fields of a result that
\* is no dict raises AttributeError, which nothing catches
DocCall ==
    /\ pc = "enhance"
    /\ enhance' = Some(TRUE)
    /\ \E reply \in DocReplies :
        LET doc_result == analyze_document_with_mistral(reply)
        IN  /\ calls' = Append(calls, [kind |-> "document", section |-> 0, first |-> 0, n |-> 0])
            /\ last_reply' = Reply(reply, 0, <<>>)
            /\ IF is_dict(doc_result)
               THEN /\ document_enhanced' = Some([summary |-> Get(doc_result, "summary"),
                                                  intention |-> Get(doc_result, "intention"),
                                                  keywords |-> Get(doc_result, "keywords"),
                                                  title |-> GetText(doc_result, "title")])
                    /\ pc' = "batches"
                    /\ section_idx' = 1
                    /\ batch_i' = 0
               ELSE /\ pc' = "raised"
                    /\ UNCHANGED <<document_enhanced, section_idx, batch_i>>
    /\ UNCHANGED <<blocks, metadata, sections, seglocals, batch_texts, llm_results,
                   result, funvars>>

\* lines 306-309: a section without articles
SkipEmptySection ==
    /\ pc = "batches" /\ section_idx <= Len(sections)
    /\ sections[section_idx].articles = <<>>
    /\ section_idx' = section_idx + 1
    /\ UNCHANGED <<blocks, enhance, pc, metadata, sections, seglocals, document_enhanced,
                   batch_i, batch_texts, llm_results, result, calls, last_reply, funvars>>

\* lines 311-319: one batch call and the merge of its results
BatchCall ==
    /\ pc = "batches" /\ section_idx <= Len(sections)
    /\ batch_i < Len(sections[section_idx].articles)
    /\ LET articles == sections[section_idx].articles
           pos == batch_positions(articles, batch_i)
           texts == [k \in 1..Cardinality(pos) |-> articles[batch_i + k].article_content]
       IN  \E reply \in BatchReplies(Len(texts)) :
             LET results == analyze_articles_batch_with_mistral(texts, reply)
                 raises == first_non_dict(results, Min(Len(texts), Len(results))) # 0
             IN  /\ batch_texts' = texts
                 /\ llm_results' = results
                 /\ last_reply' = reply
                 /\ calls' = Append(calls, [kind |-> "batch", section |-> section_idx,
                                            first |-> batch_i + 1, n |-> Len(texts)])
                 /\ sections' = [sections EXCEPT ![section_idx].articles =
                                    merged_articles(articles, batch_i, results)]
                 /\ IF raises
                    THEN pc' = "raised" /\ UNCHANGED <<section_idx, batch_i>>
                    ELSE /\ pc' = "batches"
                         /\ IF next_batch_start(batch_i) < Len(articles)
                            THEN batch_i' = next_batch_start(batch_i) /\ UNCHANGED section_idx
                            ELSE batch_i' = 0 /\ section_idx' = section_idx + 1
    /\ UNCHANGED <<blocks, enhance, metadata, seglocals, document_enhanced, result, funvars>>

\* lines 320 and 324-333: the batch loop has ended; the Document is built
\* from the enriched tree
Assemble ==
    /\ pc = "batches" /\ section_idx > Len(sections)
    /\ result' = Some(result_of(TRUE, document_enhanced, metadata, sections))
    /\ pc' = "done"
    /\ UNCHANGED <<blocks, enhance, metadata, sections, seglocals, document_enhanced, section_idx,
                   batch_i, batch_texts, llm_results, calls, last_reply, funvars>>

\* lines 321-333: the flag is off; the Document is built from the tree as
\* normalization left it
SkipEnhance ==
    /\ pc = "enhance"
    /\ enhance' = Some(FALSE)
    /\ result' = Some(result_of(FALSE, document_enhanced, metadata, sections))
    /\ pc' = "done"
    /\ UNCHANGED <<blocks, metadata, sections, seglocals, document_enhanced, section_idx,
                   batch_i, batch_texts, llm_results, calls, last_reply, funvars>>

(***************************************************************************)
(* Spec: one run of parse_pdf on a fragment stream                         *)
(***************************************************************************)
\* the values of the variables a run has not set yet
Unset ==
    /\ metadata = [title |-> <<>>, date |-> <<>>]
    /\ column_separator = 0 /\ i = 0 /\ sections = <<>>
    /\ current_section = None /\ current_article = None
    /\ current_title_blocks = <<>> /\ current_content_blocks = <<>> /\ matches = <<>>
    /\ document_enhanced = None /\ section_idx = 0 /\ batch_i = 0
    /\ batch_texts = <<>> /\ llm_results = <<>> /\ result = None
    /\ calls = <<>> /\ last_reply = Reply("none", 0, <<>>)

Init ==
    /\ blocks \in SeqsUpTo(FragmentPool, MaxBlocks)
    /\ enhance = None
    /\ pc = "start"
    /\ Unset
    /\ raw_title = <<>> /\ cleaned_title = <<>> /\ permuted = <<>>

Next ==
    \/ ExtractMetadata
    \/ SplitStart
    \/ SkipBlank
    \/ SectionMarker
    \/ ArticleMarker
    \/ Continuation
    \/ Discard
    \/ EndOfStream
    \/ Clean
    \/ DocCall
    \/ SkipEmptySection
    \/ BatchCall
    \/ Assemble
    \/ SkipEnhance

Spec == Init /\ [][Next]_vars

(***************************************************************************)
(* SpecEnrich: the enrichment pass of parse_pdf (lines 291-333) on the     *)
(* tree that segmentation and normalization give for a stream of sections  *)
(* with any number of articles each                                        *)
(***************************************************************************)
RECURSIVE Sum(_)
Sum(q) == IF q = <<>> THEN 0 ELSE Head(q) + Sum(Tail(q))

\* the numbers of articles of the sections of a document
ArticleCounts == {c \in SeqsUpTo(0..MaxArticles, MaxSections) : Sum(c) <= MaxArticles}

RECURSIVE StreamOf(_)
\* a stream with these numbers of articles: per section a numeral, its title
\* text and, per article, a marker and a fragment in the right column
StreamOf(counts) ==
    IF counts = <<>> THEN <<>>
    ELSE LET article == <<Fragment(<<"A", "r", "t", ".", " ", "1">>, 50, 40),
                          Fragment(<<"c", "d">>, 300, 40)>>
             body[k \in 0..MaxArticles + MaxSections] == IF k = 0 THEN <<>> ELSE body[k - 1] \o article
         IN  <<Fragment(<<"I", "I", ".">>, 50, 20), Fragment(<<"a", "b">>, 50, 50)>>
             \o body[Head(counts)] \o StreamOf(Tail(counts))

\* the tree split_into_sections_and_articles_with_layout and
\* clean_section_article_text give for StreamOf(counts)
TreeOf(counts) ==
    [s \in 1..Len(counts) |->
        [section_title |-> <<"I", "I", ".", " ", "a", "b">>,
         articles |-> [a \in 1..counts[s] |->
            [article_number |-> <<"1">>,
             article_title |-> <<>>,
             article_content |-> <<"c", "d">>,
             marker |-> 2 * s + 2 * Sum(SubSeq(counts, 1, s - 1)) + 2 * a - 1]]]]

InitEnrich ==
    /\ \E counts \in ArticleCounts :
        /\ blocks = StreamOf(counts)
        /\ sections = TreeOf(counts)
    /\ enhance = None
    /\ pc = "enhance"
    /\ metadata \in extract_metadata_from_blocks(blocks)
    /\ column_separator = 0 /\ i = 0
    /\ current_section = None /\ current_article = None
    /\ current_title_blocks = <<>> /\ current_content_blocks = <<>> /\ matches = <<>>
    /\ document_enhanced = None /\ section_idx = 0 /\ batch_i = 0
    /\ batch_texts = <<>> /\ llm_results = <<>> /\ result = None
    /\ calls = <<>> /\ last_reply = Reply("none", 0, <<>>)
    /\ raw_title = <<>> /\ cleaned_title = <<>> /\ permuted = <<>>

NextEnrich ==
    \/ DocCall
    \/ SkipEmptySection
    \/ BatchCall
    \/ Assemble

SpecEnrich == InitEnrich /\ [][NextEnrich]_vars

(***************************************************************************)
(* SpecColumn: find_column_separator on a fragment list and on its         *)
(* permutations                                                            *)
(***************************************************************************)
ColumnPool ==
    { Fragment(<<"a">>, 10, 0), Fragment(<<"a">>, 30, 0), Fragment(<<"a">>, 31, 0),
      Fragment(<<"a">>, 52, 0), Fragment(<<"a">>, 100, 0), Fragment(<<" ", "\n">>, 500, 0) }

\* line 116: the call of find_column_separator
Estimate ==
    /\ pc = "column"
    /\ column_separator' = find_column_separator(blocks)
    /\ pc' = "permute"
    /\ UNCHANGED <<blocks, enhance, metadata, i, sections, current_section, current_article,
                   current_title_blocks, current_content_blocks, matches, document_enhanced,
                   section_idx, batch_i, batch_texts, llm_results, result, calls, last_reply,
                   funvars>>

\* the caller gives the same fragments in another order: two neighbours swap
Permute ==
    /\ pc = "permute"
    /\ \E k \in 1..(Len(permuted) - 1) :
        permuted' = [permuted EXCEPT ![k] = permuted[k + 1], ![k + 1] = permuted[k]]
    /\ UNCHANGED <<blocks, enhance, pc, metadata, column_separator, i, sections, current_section,
                   current_article, current_title_blocks, current_content_blocks, matches,
                   document_enhanced, section_idx, batch_i, batch_texts, llm_results, result,
                   calls, last_reply, raw_title, cleaned_title>>

InitColumn ==
    /\ blocks \in SeqsUpTo(ColumnPool, MaxColumnBlocks)
    /\ permuted = blocks
    /\ enhance = None
    /\ pc = "column"
    /\ Unset
    /\ raw_title = <<>> /\ cleaned_title = <<>>

NextColumn ==
    \/ Estimate
    \/ Permute

SpecColumn == InitColumn /\ [][NextColumn]_vars

(***************************************************************************)
(* SpecTitle: remove_section_titles_from_title on a title                  *)
(***************************************************************************)
TitleChars == {"I", "A", "a", ".", " "}

\* the example of the specification
ExampleTitle ==
    <<"I", ".", " ", "A", "l", "l", "g", "e", "m", "e", "i", "n", "e", " ",
      "B", "e", "s", "t", "i", "m", "m", "u", "n", "g", "e", "n", " ",
      "A", ".", " ", "G", "e", "l", "t", "u", "n", "g", "s", "b", "e", "r", "e", "i", "c", "h">>

\* line 397: the call of remove_section_titles_from_title
TruncateTitle ==
    /\ pc = "title"
    /\ cleaned_title' = remove_section_titles_from_title(raw_title)
    /\ pc' = "truncated"
    /\ UNCHANGED <<blocks, enhance, metadata, column_separator, i, sections, current_section,
                   current_article, current_title_blocks, current_content_blocks, matches,
                   document_enhanced, section_idx, batch_i, batch_texts, llm_results, result,
                   calls, last_reply, raw_title, permuted>>

InitTitle ==
    /\ raw_title \in SeqsUpTo(TitleChars, MaxTitleLen) \cup {ExampleTitle}
    /\ cleaned_title = <<>>
    /\ blocks = <<>> /\ permuted = <<>>
    /\ enhance = None
    /\ pc = "title"
    /\ Unset

NextTitle == TruncateTitle

SpecTitle == InitTitle /\ [][NextTitle]_vars

(***************************************************************************)
(* SpecDate: extract_metadata_from_blocks on fragments that carry dates    *)
(***************************************************************************)
\* texts of the five date notations, with days no month has, two-digit
\* years on both sides of 50, a year below 1000, and a text without a date
DatePool ==
    { Fragment(<<"3", "1", "/", "0", "2", "/", "2", "0", "2", "3">>, 50, 10),
      Fragment(<<"0", "3", "/", "0", "4", "/", "9", "9">>, 50, 20),
      Fragment(<<"1", "/", "2", "/", "1", "2", "3">>, 50, 30),
      Fragment(<<"2", "0", "2", "3", "-", "0", "2", "-", "3", "0">>, 50, 40),
      Fragment(<<"2", "0", "2", "4", "-", "0", "2", "-", "2", "9">>, 50, 50),
      Fragment(<<"M", "a", "r", "c", "h", " ", "5", ",", " ", "2", "0", "2", "1">>, 50, 60),
      Fragment(<<"A", "p", "r", "i", "l", " ", "3", "1", " ", "2", "0", "2", "0">>, 50, 70),
      Fragment(<<"5", ".", " ", "M", "ä", "r", "z", " ", "2", "0", "2", "0">>, 50, 80),
      Fragment(<<"1", "2", ".", " ", "M", "a", "i", " ", "2", "0", "2", "2">>, 50, 90),
      Fragment(<<"a", "b">>, 50, 100),
      Fragment(<<"2", "9", "/", "0", "2", "/", "2", "4">>, 50, 110),
      Fragment(<<"3", "1", "/", "1", "2", "/", "4", "9">>, 50, 120),
      Fragment(<<"1", "/", "1", "/", "5", "0">>, 50, 130) }

InitDate ==
    /\ blocks \in SeqsUpTo(DatePool, MaxDateBlocks)
    /\ enhance = None
    /\ pc = "start"
    /\ Unset
    /\ raw_title = <<>> /\ cleaned_title = <<>> /\ permuted = <<>>

NextDate == ExtractMetadata

SpecDate == InitDate /\ [][NextDate]_vars

(***************************************************************************)
(* SpecSegment: split_into_sections_and_articles_with_layout on a stream   *)
(* that opens with a section heading                                       *)
(***************************************************************************)
\* a section marker and its title text
SectionHeading == <<Fragment(<<"I", "I", ".">>, 50, 20), Fragment(<<"a", "b">>, 50, 50)>>

\* the fragments that follow: blank, section marker, article markers, and
\* running text of both columns
TailPool == FragmentPool \ {Fragment(<<"A", ".">>, 50, 30)}

InitSegment ==
    /\ \E tail \in SeqsUpTo(TailPool, MaxTailBlocks) : blocks = SectionHeading \o tail
    /\ enhance = None
    /\ pc = "split"
    /\ Unset
    /\ raw_title = <<>> /\ cleaned_title = <<>> /\ permuted = <<>>

NextSegment ==
    \/ SplitStart
    \/ SkipBlank
    \/ SectionMarker
    \/ ArticleMarker
    \/ Continuation
    \/ Discard
    \/ EndOfStream

SpecSegment == InitSegment /\ [][NextSegment]_vars

(***************************************************************************)
(* Properties                                                              *)
(***************************************************************************)
RECURSIVE FlatMarkers(_)
\* the markers of the articles of a section list, section by section
FlatMarkers(secs) ==
    IF secs = <<>> THEN <<>>
    ELSE [a \in 1..Len(Head(secs).articles) |-> Head(secs).articles[a].marker]
         \o FlatMarkers(Tail(secs))

\* C1: when the segmenter returns, the articles of the returned sections are,
\* in number and in order (section by section, then within each section), the
\* article markers that were matched in the stream.
C1_ArticlesAreTheMatchedMarkers ==
    pc = "clean" => FlatMarkers(sections) = matches

\* how many times the article opened at stream index m sits in a list of secs
Occurrences(secs, m) ==
    Cardinality({<<s, a>> \in (1..Len(secs)) \X (1..MaxBlocks) :
                    a <= Len(secs[s].articles) /\ secs[s].articles[a].marker = m})

\* the number of sections that own the article opened at stream index m: the
\* closed sections and the open one that list it, and the open section while
\* the article is the open article
Owners(m) ==
    Occurrences(sections, m)
    + (IF pc = "scan" THEN Occurrences(current_section, m) ELSE 0)
    + (IF pc = "scan" /\ current_article # None /\ current_article[1].marker = m
          /\ current_section # None THEN 1 ELSE 0)

\* C6: in every state of the segmenter after an article was opened, and in
\* its output, the article belongs to exactly one section: not to two, not
\* twice to one, not to none.
C6_ArticleInExactlyOneSection ==
    pc \in {"scan", "clean"} =>
        \A k \in 1..Len(matches) : Owners(matches[k]) = 1

\* the latest call to the annotation service was a batch call
LatestIsBatch == calls # <<>> /\ calls[Len(calls)].kind = "batch"

\* C2: the list a batch call returns has as many elements as the request
\* has texts, whatever the service answered.
C2_ResponseLengthIsRequestLength ==
    LatestIsBatch => Len(llm_results) = Len(batch_texts)

\* C4: no exception escapes the enrichment pass, whatever the service
\* answers to the document-level call and to the batch calls.
C4_NoExceptionEscapesEnrichment ==
    pc # "raised"

EnrichmentFields == {"article_summary", "article_intention", "article_keywords"}

\* the article at position k of the latest batch
LatestBatchArticle(k) ==
    sections[calls[Len(calls)].section].articles[calls[Len(calls)].first + k - 1]

\* C10: with enrichment enabled, once parse_pdf has returned, every article
\* carries summary, intention and keywords, and the article at position k of
\* a batch carries the fields of element k of the list the call returned.
C10_EveryArticleEnrichedByPosition ==
    (pc = "done" /\ enhance = Some(TRUE)) =>
        /\ \A s \in 1..Len(sections) : \A a \in 1..Len(sections[s].articles) :
              EnrichmentFields \subseteq DOMAIN sections[s].articles[a]
        /\ LatestIsBatch =>
              \A k \in 1..Len(batch_texts) :
                  /\ k <= Len(llm_results)
                  /\ EnrichmentFields \subseteq DOMAIN LatestBatchArticle(k)
                  /\ LatestBatchArticle(k).article_summary = Get(llm_results[k], "summary")
                  /\ LatestBatchArticle(k).article_intention = Get(llm_results[k], "intention")
                  /\ LatestBatchArticle(k).article_keywords = Get(llm_results[k], "keywords")

RECURSIVE Chunks(_, _, _)
\* the batch calls for a section s of n articles, from article first on:
\* consecutive chunks of 5, the last one possibly smaller
Chunks(s, first, n) ==
    IF first > n THEN <<>>
    ELSE <<[kind |-> "batch", section |-> s, first |-> first, n |-> Min(5, n - first + 1)]>>
         \o Chunks(s, first + 5, n)

RECURSIVE SectionCalls(_, _)
SectionCalls(secs, s) ==
    IF s > Len(secs) THEN <<>>
    ELSE Chunks(s, 1, Len(secs[s].articles)) \o SectionCalls(secs, s + 1)

\* the calls of a run with enrichment: the document-level call, then the
\* batches of every section in document order
ExpectedCalls ==
    <<[kind |-> "document", section |-> 0, first |-> 0, n |-> 0]>> \o SectionCalls(sections, 1)

IsPrefix(p, q) == Len(p) <= Len(q) /\ p = SubSeq(q, 1, Len(p))

\* C9: with enrichment enabled the calls made so far are, at every moment,
\* the first calls of: one document-level call, then per section in order one
\* call per consecutive chunk of 5 articles (the last chunk of a section may be
\* smaller, no chunk spans two sections), each made once; when the batch
\* loop has ended, all of them have been made.
C9_CallSequence ==
    enhance = Some(TRUE) =>
        /\ calls # <<>>
        /\ IsPrefix(calls, ExpectedCalls)
        /\ pc = "done" => calls = ExpectedCalls

\* C9 witness: a returned run whose section 1 was called as a chunk of 5 and
\* a smaller last chunk, followed by a call for section 2.
C9_Witness ==
    /\ pc = "done" /\ enhance = Some(TRUE)
    /\ \E k \in 1..Len(calls) : \E m \in 1..Len(calls) : \E j \in 1..Len(calls) :
        /\ k < m /\ m < j
        /\ calls[k].section = 1 /\ calls[k].n = 5
        /\ calls[m].section = 1 /\ calls[m].first = 6 /\ calls[m].n < 5
        /\ calls[j].section = 2

\* where the batch loop stands: the section and the 1-based first article of
\* the batch it calls next, <<0, 0>> if it calls no more
NextBatch ==
    IF pc # "batches" THEN <<0, 0>>
    ELSE LET later == {s \in section_idx..Len(sections) : sections[s].articles # <<>>}
             s == CHOOSE s \in later : \A t \in later : s <= t
         IN  IF later = {} THEN <<0, 0>>
             ELSE IF s = section_idx THEN <<s, batch_i + 1>> ELSE <<s, 1>>

\* C3: after a batch call that failed with a transport error the run is not
\* aborted, every article of that batch has empty summary, intention and
\* keywords, and the loop stands at the batch that follows in document order
\* (the next chunk of the section, or the first chunk of the next section with
\* articles); when the loop has ended every batch has been called.
C3_TransportFailureIsolated ==
    (LatestIsBatch /\ last_reply.kind = "transport") =>
        /\ pc # "raised"
        /\ \A k \in 1..Len(batch_texts) :
              /\ EnrichmentFields \subseteq DOMAIN LatestBatchArticle(k)
              /\ LatestBatchArticle(k).article_summary = ""
              /\ LatestBatchArticle(k).article_intention = ""
              /\ LatestBatchArticle(k).article_keywords = ""
        /\ Len(calls) < Len(ExpectedCalls) =>
              /\ pc = "batches"
              /\ NextBatch = <<ExpectedCalls[Len(calls) + 1].section,
                               ExpectedCalls[Len(calls) + 1].first>>
        /\ pc = "done" => calls = ExpectedCalls

\* C3 witness: the first batch of a section of more than five articles failed
\* with a transport error, and batches of this and of a later section remain.
C3_Witness ==
    /\ LatestIsBatch /\ last_reply.kind = "transport"
    /\ Len(batch_texts) = 5
    /\ pc = "batches"
    /\ Len(ExpectedCalls) >= Len(calls) + 2
    /\ ExpectedCalls[Len(calls) + 1].section = calls[Len(calls)].section
    /\ ExpectedCalls[Len(calls) + 2].section > calls[Len(calls)].section

\* every article of the document
AllArticles(secs) ==
    {secs[s].articles[a] : <<s, a>> \in {p \in (1..Len(secs)) \X (1..MaxBlocks) :
                                            p[2] <= Len(secs[p[1]].articles)}}

\* C5: with enrichment disabled no call is made to the annotation service,
\* and the Document that is returned has no summary, intention or keywords
\* on the document or on any article, and its title is the title the
\* metadata extractor finds in the stream.
C5_DisabledEnrichment ==
    enhance = Some(FALSE) =>
        /\ calls = <<>>
        /\ pc = "done"
        /\ DOMAIN result[1] \cap {"document_summary", "document_intention",
                                  "document_keywords"} = {}
        /\ \A art \in AllArticles(result[1].sections) : DOMAIN art \cap EnrichmentFields = {}
        /\ result[1].document_title = metadata_title(blocks)

\* C5 witness: a run without enrichment has returned a Document with a title
\* and an article.
C5_Witness ==
    /\ pc = "done" /\ enhance = Some(FALSE)
    /\ result[1].document_title # <<>>
    /\ AllArticles(result[1].sections) # {}

\* C7: find_column_separator gives the same value for every permutation of
\* the fragments, and 0 when there is no fragment or every text is blank.
C7_PermutationInvariant ==
    pc = "permute" =>
        /\ find_column_separator(permuted) = column_separator
        /\ (\A k \in 1..Len(blocks) : strip(blocks[k].text) = <<>>) => column_separator = 0

\* C7 witness: the separator of a list was estimated, it is not 0, and the
\* list is now in an order whose x positions are not sorted.
C7_Witness ==
    /\ pc = "permute"
    /\ column_separator # 0
    /\ x_positions(permuted) # x_positions(blocks)
    /\ \E k \in 1..(Len(x_positions(permuted)) - 1) :
          x_positions(permuted)[k] > x_positions(permuted)[k + 1]

\* the index of the capital-letter sub-marker that follows the title text of
\* a title "<roman numeral>. <title text> <capital>. ..." (0 if the title is
\* not of this shape)
SubMarkerIndex(t) ==
    LET r == RunEnd(t, 1, Roman)
        marks == {q \in (r + 3)..(Len(t) - 1) :
                     t[q - 1] = " " /\ t[q] \in Upper /\ t[q + 1] = "."}
        q == CHOOSE q \in marks : \A m \in marks : q <= m
    IN  IF /\ r > 1 /\ r + 1 <= Len(t) /\ t[r] = "." /\ t[r + 1] = " "
           /\ marks # {}
           /\ \A k \in (r + 1)..(q - 1) : t[k] \in Letter \cup {" "}
           /\ \E k \in (r + 1)..(q - 1) : t[k] \in Letter
        THEN q ELSE 0

\* C8: for a title made of a roman-numeral heading, its title text and then
\* a capital-letter sub-marker with its text, sub-marker truncation gives the
\* heading and its title text: the prefix before the sub-marker.
C8_KeepsHeadingAndTitleText ==
    (pc = "truncated" /\ SubMarkerIndex(raw_title) # 0) =>
        cleaned_title = strip(SubSeq(raw_title, 1, SubMarkerIndex(raw_title) - 1))

\* the notations of date_patterns whose leftmost match in the text is a
\* calendar date
DatedPatterns(text) ==
    {k \in 1..5 : LET match == date_search(k, text)
                  IN  match # None /\ valid_date(match[1][1], match[1][2], match[1][3])}

\* day, month and year written as DD.MM.YYYY
DayMonthYear(y, m, d) ==
    LET two(n) == <<DigitSeq[(n \div 10) + 1], DigitSeq[(n % 10) + 1]>>
    IN  two(d) \o <<".">> \o two(m) \o <<".">> \o two(y \div 100) \o two(y % 100)

\* C11: the extracted date is the DD.MM.YYYY form of the leftmost match of
\* the first notation, in the order of date_patterns, whose match is a
\* calendar date, and the empty string when no notation has one
C11_FirstValidPatternGivesDate ==
    pc = "split" =>
        LET text == all_text(blocks)
            dated == DatedPatterns(text)
        IN  IF dated = {} THEN metadata.date = <<>>
            ELSE LET k == CHOOSE n \in dated : \A o \in dated : n <= o
                     dt == date_search(k, text)[1]
                 IN  metadata.date = DayMonthYear(dt[1], dt[2], dt[3])

\* the step in which the document-level call is answered
DocumentCallStep == calls = <<>> /\ calls' # <<>>

\* the step in which parse_pdf returns from a run with enrichment
EnrichedReturnStep == pc # "done" /\ pc' = "done" /\ enhance' = Some(TRUE)

\* C12: with enrichment on, the returned title is the title of the
\* document-level answer when that is not empty, and the metadata title when
\* it is empty, when the answer is no JSON and when the request failed; a
\* failed request leaves the document summary, intention and keywords empty
\* and the run goes on to the batch calls, all of which are made before it
\* returns.
C12_EnrichmentTitleElseMetadataTitle ==
    [][/\ DocumentCallStep =>
            /\ last_reply'.kind = "titled" =>
                    /\ pc' = "batches"
                    /\ document_enhanced'[1].title = <<"d", "t">>
            /\ last_reply'.kind \in {"untitled", "unparseable", "transport"} =>
                    /\ pc' = "batches"
                    /\ document_enhanced'[1].title = <<>>
            /\ last_reply'.kind = "transport" =>
                    /\ document_enhanced'[1].summary = ""
                    /\ document_enhanced'[1].intention = ""
                    /\ document_enhanced'[1].keywords = ""
       /\ document_enhanced # None => document_enhanced' = document_enhanced
       /\ metadata' = metadata
       /\ EnrichedReturnStep =>
            /\ document_enhanced[1].title # <<>> =>
                    result'[1].document_title = document_enhanced[1].title
            /\ document_enhanced[1].title = <<>> =>
                    result'[1].document_title = metadata.title
            /\ result'[1].document_summary = document_enhanced[1].summary
            /\ result'[1].document_intention = document_enhanced[1].intention
            /\ result'[1].document_keywords = document_enhanced[1].keywords
            /\ calls' = ExpectedCalls
      ]_vars

\* C12 witness: a run returned with the metadata title, which is not empty,
\* after a document-level call that gave no title, no summary, no intention
\* and no keywords, and after batch calls.
C12_Witness ==
    /\ pc = "done" /\ enhance = Some(TRUE)
    /\ document_enhanced[1].title = <<>> /\ document_enhanced[1].summary = ""
    /\ document_enhanced[1].intention = "" /\ document_enhanced[1].keywords = ""
    /\ metadata.title # <<>>
    /\ result[1].document_title = metadata.title
    /\ result[1].document_summary = ""
    /\ Len(calls) > 1

\* the scan stands at a fragment that is a section marker
AtSectionMarker ==
    /\ pc = "scan" /\ i <= Len(blocks)
    /\ section_numeral_pattern(text_at(i))

\* the open article with its title and content accumulators joined
JoinedArticle ==
    [article_number |-> current_article[1].article_number,
     article_title |-> strip(join(current_title_blocks)),
     article_content |-> strip(join(current_content_blocks)),
     marker |-> current_article[1].marker]

\* C13: the step taken at a section marker while a section and an article
\* are open adds one section to the end of the list, namely the section that
\* was open with the open article (title and content joined) appended as its
\* last article, and leaves a new open section with no articles and no open
\* article.
C13_SectionMarkerFlushesArticleThenSection ==
    [][(AtSectionMarker /\ current_section # None /\ current_article # None) =>
            /\ sections' = Append(sections,
                    [section_title |-> current_section[1].section_title,
                     articles |-> Append(current_section[1].articles, JoinedArticle)])
            /\ current_section' # None
            /\ current_section'[1].articles = <<>>
            /\ current_article' = None
            /\ current_title_blocks' = <<>> /\ current_content_blocks' = <<>>
      ]_vars

\* C13 witness: the scan has passed a second section marker: the first
\* section is in the list with the article that was open, the new section is
\* open without articles, no article is open.
C13_Witness ==
    /\ pc = "scan" /\ i > Len(blocks)
    /\ Len(sections) = 1 /\ Len(sections[1].articles) = 1
    /\ sections[1].articles[1].marker = 3
    /\ section_numeral_pattern(text_at(4))
    /\ current_section # None /\ current_section[1].articles = <<>>
    /\ current_article = None

\* the scan stands at a fragment with text that is no section marker and no
\* article marker
AtPlainFragment ==
    /\ pc = "scan" /\ i <= Len(blocks)
    /\ text_at(i) # <<>>
    /\ ~section_numeral_pattern(text_at(i))
    /\ first_article_pattern(text_at(i)) = 0

\* C14: during the scan the boundary is the value computed before it and
\* does not change.  The step taken at a fragment with text that is no marker
\* appends the fragment to the title accumulator alone when an article is
\* open and its x0 is strictly less than the boundary, to the content
\* accumulator alone when an article is open and its x0 is at or beyond the
\* boundary, and changes nothing of the segmenter but the scan position when
\* no article is open.
C14_PlainFragmentGoesByColumn ==
    [][/\ pc = "scan" =>
            /\ column_separator = find_column_separator(blocks)
            /\ column_separator' = column_separator
       /\ AtPlainFragment =>
            /\ i' = i + 1
            /\ UNCHANGED <<sections, current_section, current_article>>
            /\ (current_article # None /\ 2 * blocks[i].bbox[1] < column_separator) =>
                    /\ current_title_blocks' = Append(current_title_blocks, blocks[i].text)
                    /\ current_content_blocks' = current_content_blocks
            /\ (current_article # None /\ 2 * blocks[i].bbox[1] >= column_separator) =>
                    /\ current_content_blocks' = Append(current_content_blocks, blocks[i].text)
                    /\ current_title_blocks' = current_title_blocks
            /\ current_article = None =>
                    UNCHANGED <<current_title_blocks, current_content_blocks>>
      ]_vars

\* C14 witness: an article is open and its content accumulator ends with a
\* fragment whose x0 is exactly the boundary, the fragment the scan has just
\* passed.
C14_Witness ==
    /\ pc = "scan" /\ i > 1 /\ i <= Len(blocks) + 1
    /\ current_article # None
    /\ current_content_blocks # <<>>
    /\ current_content_blocks[Len(current_content_blocks)] = blocks[i - 1].text
    /\ 2 * blocks[i - 1].bbox[1] = column_separator
    /\ current_title_blocks = <<>>

RECURSIVE OpenedTitles(_)
\* the titles of the sections the scan opens from fragment k on, in the order
\* it opens them: at each section marker one section, the scan going on
\* behind the fragments the look-ahead took
OpenedTitles(k) ==
    IF k > Len(blocks) THEN <<>>
    ELSE IF section_numeral_pattern(text_at(k))
         THEN LET la == look_ahead(blocks, k + 1, <<>>)
              IN  <<strip(section_title_of(rstrip_dot(text_at(k)), la.title_parts))>>
                  \o OpenedTitles(la.j + 1)
         ELSE OpenedTitles(k + 1)

\* C15: in the list the segmenter returns the sections are the sections the
\* markers opened, each once and in the order they were opened, and the
\* article opened last, if any article was opened, is the last article of the
\* last section.
C15_EndOfStreamFlushesArticleThenSection ==
    pc = "clean" =>
        /\ [s \in 1..Len(sections) |-> sections[s].section_title] = OpenedTitles(1)
        /\ matches # <<>> =>
            /\ sections # <<>>
            /\ sections[Len(sections)].articles # <<>>
            /\ LET articles == sections[Len(sections)].articles
               IN  articles[Len(articles)].marker = matches[Len(matches)]

\* a single capital letter followed by a dot
CapitalAndDot(text) == Len(text) = 2 /\ text[1] \in Upper /\ text[2] = "."

RECURSIVE TitleTextIndex(_)
\* from fragment j on: past the blank fragments and the fragments that are a
\* capital letter and a dot, the index of the first other fragment; 0 if the
\* stream ends before one
TitleTextIndex(j) ==
    IF j > Len(blocks) THEN 0
    ELSE IF text_at(j) = <<>> \/ CapitalAndDot(text_at(j)) THEN TitleTextIndex(j + 1)
         ELSE j

\* C16: the section opened at a section marker is titled "<numeral>. <title
\* text>", the title text being the first fragment after the marker that has
\* text and is not a capital letter and a dot, and is titled "<numeral>" when
\* the stream ends before such a fragment.
C16_TitleIsNumeralAndTitleText ==
    [][AtSectionMarker =>
            LET numeral == rstrip_dot(text_at(i))
                t == TitleTextIndex(i + 1)
            IN  current_section'[1].section_title =
                    IF t = 0 THEN numeral ELSE numeral \o <<".", " ">> \o text_at(t)
      ]_vars

\* C17: a scan step never moves the scan position back; the step at a
\* section marker whose look-ahead stopped at a title-text fragment moves it
\* to the fragment right after that one, and every step at another fragment
\* moves it by one.  So a fragment the look-ahead took is not classified
\* afterwards, and every fragment that no look-ahead took is classified.
C17_ScanResumesAfterConsumedFragments ==
    [][(pc = "scan" /\ i <= Len(blocks)) =>
            /\ i' > i
            /\ ~AtSectionMarker => i' = i + 1
            /\ AtSectionMarker =>
                    LET title_text == look_ahead(blocks, i + 1, <<>>).j
                    IN  title_text <= Len(blocks) => i' = title_text + 1
      ]_vars

\* C17 witness: the first fragment was a section marker, the second its
\* title text, and the scan stands at the third, which it has yet to
\* classify.
C17_Witness ==
    /\ pc = "scan" /\ i = 3 /\ Len(blocks) >= 3
    /\ section_numeral_pattern(text_at(1))
    /\ look_ahead(blocks, 2, <<>>).j = 2
    /\ current_section # None

\* the positions k of a sorted list whose distance to the value before is
\* strictly greater than 20
WideGaps(xs) == {k \in 2..Len(xs) : xs[k] - xs[k - 1] > 20}

\* twice the midpoint of a widest gap of the sorted list xs
IsMidpointOfLargestGap(xs, twice) ==
    \E k \in WideGaps(xs) :
        /\ \A m \in WideGaps(xs) : xs[m] - xs[m - 1] <= xs[k] - xs[k - 1]
        /\ twice = xs[k - 1] + xs[k]

\* twice the median of the sorted list xs: the middle value, or the mean of
\* the two middle values of a list of even length
TwiceMedian(xs) ==
    IF Len(xs) % 2 = 1 THEN 2 * xs[(Len(xs) + 1) \div 2]
    ELSE xs[Len(xs) \div 2] + xs[(Len(xs) \div 2) + 1]

C19_ResponseNormalization ==
    LatestIsBatch =>
        /\ last_reply.kind = "objects" =>
                llm_results = [k \in 1..last_reply.len |-> Annotation(k)]
        /\ last_reply.kind = "object" => llm_results = <<Annotation(1)>>
        /\ last_reply.kind = "strings" =>
                /\ Len(llm_results) = last_reply.len
                /\ \A k \in 1..last_reply.len :
                      /\ last_reply.elems[k] = "object" => llm_results[k] = Annotation(k)
                      /\ last_reply.elems[k] = "value" => llm_results[k] = NonObject
                      /\ last_reply.elems[k] = "garbage" =>
                            /\ {"summary", "intention", "keywords", "error", "raw"}
                                    \subseteq DOMAIN llm_results[k]
                            /\ llm_results[k].summary = ""
                            /\ llm_results[k].intention = ""
                            /\ llm_results[k].keywords = ""

\* how far a run of parse_pdf has come: 0 nothing done, 1 line 288 done,
\* 2 line 116 done and the scan running, 3 line 289 done, 4 line 290 done,
\* 5 the document-level call done and the batch loop running, 6 ended
StageRank(p) ==
    CASE p = "start" -> 0
      [] p = "split" -> 1
      [] p = "scan" -> 2
      [] p = "clean" -> 3
      [] p = "enhance" -> 4
      [] p = "batches" -> 5
      [] p \in {"done", "raised"} -> 6

\* C20 as stated: column estimation comes before metadata extraction, which
\* comes before segmentation: once the metadata have been extracted the
\* boundary has been estimated, and the scan runs only after both.
C20_ColumnEstimationThenMetadata ==
    /\ StageRank(pc) >= 1 => column_separator = find_column_separator(blocks)
    /\ pc = "scan" => metadata \in extract_metadata_from_blocks(blocks)

\* C20 amended: a run goes through its stages in the order metadata
\* extraction, column estimation, segmentation, normalization, document-level
\* call, batch calls, one stage at a time and never back; a run without
\* enrichment ends after normalization.  The metadata are written only by the
\* first stage, the boundary only by the second, the scan position only by
\* the second and third, the document-level call is made only after
\* normalization and batch calls only after the document-level call.
C20_StagesInCodeOrder ==
    [][/\ StageRank(pc') \in {StageRank(pc), StageRank(pc) + 1, 6}
       /\ StageRank(pc') = 6 => StageRank(pc) >= 4
       /\ metadata' # metadata => pc = "start"
       /\ column_separator' # column_separator => pc = "split"
       /\ i' # i => pc \in {"split", "scan"}
       /\ sections' # sections => pc \in {"scan", "clean", "batches"}
       /\ calls' # calls =>
            \/ pc = "enhance" /\ calls = <<>> /\ Len(calls') = 1
                    /\ calls'[1].kind = "document"
            \/ pc = "batches" /\ calls # <<>> /\ Len(calls') = Len(calls) + 1
                    /\ calls'[Len(calls')].kind = "batch"
      ]_vars

\* C20 witness: the metadata of a stream have been extracted, a title among
\* them, and the boundary of the stream, which is not 0, has not been
\* estimated yet.
C20_Witness ==
    /\ pc = "split"
    /\ metadata.title # <<>>
    /\ column_separator = 0
    /\ find_column_separator(blocks) # 0

\* the structure of a tree: the titles of its sections in order and, per
\* section, the number, title and content of its articles in order
Skeleton(secs) ==
    [s \in 1..Len(secs) |->
        [section_title |-> secs[s].section_title,
         articles |-> [a \in 1..Len(secs[s].articles) |->
            [article_number |-> secs[s].articles[a].article_number,
             article_title |-> secs[s].articles[a].article_title,
             article_content |-> secs[s].articles[a].article_content]]]]

\* the keys of every article of a tree
ArticleKeys(secs) ==
    [s \in 1..Len(secs) |-> [a \in 1..Len(secs[s].articles) |-> DOMAIN secs[s].articles[a]]]

\* C21: until normalization has ended no call is made to the annotation
\* service and no article carries a summary, intention or keywords field.
\* From then on no step changes the sections, their order and titles, the
\* articles of a section and their order, or an article's number, title and
\* content; a step only adds keys to an article, and only those three; the
\* Document returned carries the tree so enriched.
C21_EnrichmentIsAdditive ==
    [][/\ StageRank(pc) < 4 =>
            /\ calls = <<>>
            /\ \A s \in 1..Len(sections) : \A a \in 1..Len(sections[s].articles) :
                    DOMAIN sections[s].articles[a] \cap EnrichmentFields = {}
       /\ StageRank(pc) >= 4 =>
            /\ Skeleton(sections') = Skeleton(sections)
            /\ \A s \in 1..Len(sections) : \A a \in 1..Len(sections[s].articles) :
                    /\ ArticleKeys(sections)[s][a] \subseteq ArticleKeys(sections')[s][a]
                    /\ ArticleKeys(sections')[s][a] \subseteq
                            ArticleKeys(sections)[s][a] \cup EnrichmentFields
            /\ (pc # "done" /\ pc' = "done") => result'[1].sections = sections'
      ]_vars

\* C21 witness: a run with enrichment has returned a Document in which an
\* article with content carries a summary the service gave.
C21_Witness ==
    /\ pc = "done" /\ enhance = Some(TRUE)
    /\ \E s \in 1..Len(sections) : \E a \in 1..Len(sections[s].articles) :
            /\ sections[s].articles[a].article_content # <<>>
            /\ EnrichmentFields \subseteq DOMAIN sections[s].articles[a]
            /\ sections[s].articles[a].article_summary = "s1"
    /\ result[1].sections = sections

\* the groups of the leftmost match of the numeric day/month/year notation
\* in the text, None if it has no match
FirstNumericDmy(text) ==
    LET found == {p \in 1..Len(text) : numeric_dmy_groups_at(text, p) # None}
    IN  IF found = {} THEN None
        ELSE numeric_dmy_groups_at(text, CHOOSE p \in found : \A q \in found : p <= q)

\* C22: when the numeric day/month/year notation matches with a year yy of
\* two digits and the day exists in the year 2000 + yy for yy < 50, or
\* 1900 + yy for yy >= 50, the extracted date is that day written
\* DD.MM.YYYY with that year in four digits.
C22_TwoDigitYearPivot ==
    pc = "split" =>
        LET groups == FirstNumericDmy(all_text(blocks))
        IN  (groups # None /\ groups[1][4] = 2) =>
                LET yy == groups[1][3]
                    year == IF yy < 50 THEN 2000 + yy ELSE 1900 + yy
                IN  valid_date(year, groups[1][2], groups[1][1]) =>
                        metadata.date = DayMonthYear(year, groups[1][2], groups[1][1])

\* C22 witness: the metadata of the single fragment "03/04/99" have been
\* extracted and the date is "03.04.1999".
C22_Witness ==
    /\ pc = "split"
    /\ Len(blocks) = 1
    /\ blocks[1].text = <<"0", "3", "/", "0", "4", "/", "9", "9">>
    /\ metadata.date = <<"0", "3", ".", "0", "4", ".", "1", "9", "9", "9">>

\* the fragment at index k has text and is a section marker or an article
\* marker
IsMarker(k) ==
    /\ text_at(k) # <<>>
    /\ section_numeral_pattern(text_at(k)) \/ first_article_pattern(text_at(k)) # 0

\* the index of the first marker after fragment m, Len(blocks) + 1 if none
IntervalEnd(m) ==
    LET later == {k \in (m + 1)..Len(blocks) : IsMarker(k)}
    IN  IF later = {} THEN Len(blocks) + 1 ELSE CHOOSE k \in later : \A n \in later : k <= n

RECURSIVE ColumnTexts(_, _, _)
\* the texts of the fragments k..(last - 1) that have text and lie left of
\* the boundary (left) or at or right of it (~left), in stream order
ColumnTexts(k, last, left) ==
    IF k >= last THEN <<>>
    ELSE IF /\ text_at(k) # <<>>
            /\ left <=> (2 * blocks[k].bbox[1] < find_column_separator(blocks))
         THEN <<blocks[k].text>> \o ColumnTexts(k + 1, last, left)
         ELSE ColumnTexts(k + 1, last, left)

\* the inline title text of the article marker at index m, as a list of at
\* most one text
InlineTitle(m) ==
    LET t == strip(article_match(first_article_pattern(text_at(m)), text_at(m))[1].title)
    IN  IF t = <<>> THEN <<>> ELSE <<t>>

\* the articles appended to a section so far
FlushedArticles ==
    {sections[s].articles[a] : <<s, a>> \in
        {q \in (1..Len(sections)) \X (1..Len(blocks)) : q[2] <= Len(sections[q[1]].articles)}}
    \cup (IF current_section = None THEN {}
          ELSE {current_section[1].articles[a] : a \in 1..Len(current_section[1].articles)})

\* C23: the title of an article appended to a section is the inline title
\* text of its marker followed by the fragments left of the boundary that
\* lie between its marker and the next marker (or the end of the stream), in
\* stream order and joined by spaces; its content is the fragments at or
\* right of the boundary in the same interval.
C23_ArticleTextIsItsOwnInterval ==
    pc \in {"scan", "clean"} =>
        \A art \in FlushedArticles :
            LET m == art.marker
            IN  /\ art.article_title =
                        strip(join(InlineTitle(m) \o ColumnTexts(m + 1, IntervalEnd(m), TRUE)))
                /\ art.article_content =
                        strip(join(ColumnTexts(m + 1, IntervalEnd(m), FALSE)))

\* C23 witness: the segmenter has returned a section of two articles; the
\* first has a title and content from its continuation fragments, the second,
\* opened right after, has neither.
C23_Witness ==
    /\ pc = "clean"
    /\ Len(sections) = 1 /\ Len(sections[1].articles) = 2
    /\ sections[1].articles[1].article_title # <<>>
    /\ sections[1].articles[1].article_content # <<>>
    /\ sections[1].articles[2].article_title = <<>>
    /\ sections[1].articles[2].article_content = <<>>

\* what is left of the stream and of the run for the segmenter to go
\* through: a natural number that is 0 once it has returned
Remaining ==
    CASE pc = "split" -> Len(blocks) + 4
      [] pc = "scan" -> Len(blocks) + 3 - i
      [] OTHER -> 0

====
